---- MODULE Spec2Model ----
(***************************************************************************)
(* Model of plugins/inputs/odyssey/odyssey.go: one Gather cycle of the     *)
(* Odyssey input.  Strings are sequences of one-character strings, an      *)
(* int64 is a sign and a decimal magnitude (a sequence of digits without   *)
(* leading zeros), so that the full 64-bit range of strconv.ParseInt is    *)
(* represented.                                                            *)
(***************************************************************************)
EXTENDS Integers, Sequences, FiniteSets, TLC

VARIABLES
    pc,          \* position of Gather: the next statement to run
    address,     \* p.Address, the configured connection target
    ret,         \* what Gather handed back to its caller
    rowsCur,     \* cursor of SHOW STATS: "none", "open" or "closed"
    poolCur,     \* cursor of SHOW POOLS: "none", "open" or "closed"
    columns,     \* the local variable columns
    calls,       \* the accumulator: measurement and row number of every AddFields call
    lastCall,    \* the accumulator: arguments of the latest AddFields call
    queries,     \* the database: every query text handed to DB.Query, and the cursor state then
    statsRows,   \* number of times rows.Next() returned true
    poolsRows,   \* number of times poolRows.Next() returned true
    errs,        \* history: every non-nil error a step of this cycle produced
    badRow,      \* history: number of the first stats row scanned with an unparsable string field
    dbType       \* history: dynamic type of the database column in the row scanned last

vars == <<pc, address, ret, rowsCur, poolCur, columns, calls, lastCall,
          queries, statsRows, poolsRows, errs, badRow, dbType>>

----------------------------------------------------------------------------
(* Bounds *)

MaxRows == 2

----------------------------------------------------------------------------
(* Strings and 64-bit integers *)

DigitChars == <<"0", "1", "2", "3", "4", "5", "6", "7", "8", "9">>

IsDigit(c) == \E d \in 1..10 : DigitChars[d] = c

DigitOf(c) == (CHOOSE d \in 1..10 : DigitChars[d] = c) - 1

RECURSIVE StripZeros(_)
StripZeros(m) ==
    IF Len(m) > 1 /\ Head(m) = 0 THEN StripZeros(Tail(m)) ELSE m

RECURSIVE LexLess(_, _)
LexLess(a, b) ==
    IF a = <<>> THEN FALSE
    ELSE IF Head(a) # Head(b) THEN Head(a) < Head(b)
    ELSE LexLess(Tail(a), Tail(b))

\* a < b for magnitudes without leading zeros
MagLess(a, b) ==
    \/ Len(a) < Len(b)
    \/ Len(a) = Len(b) /\ LexLess(a, b)

\* maxUint64/10 + 1, the cutoff of ParseUint
UintCutoff == <<1, 8, 4, 4, 6, 7, 4, 4, 0, 7, 3, 7, 0, 9, 5, 5, 1, 6, 2>>
\* 1<<64 - 1
MaxUint64 == <<1, 8, 4, 4, 6, 7, 4, 4, 0, 7, 3, 7, 0, 9, 5, 5, 1, 6, 1, 5>>
\* 1<<63, the cutoff of ParseInt
IntCutoff == <<9, 2, 2, 3, 3, 7, 2, 0, 3, 6, 8, 5, 4, 7, 7, 5, 8, 0, 8>>

\* strconv.ParseUint(s, 10, 64): the digits are accumulated left to right
RECURSIVE ParseUintLoop(_, _)
ParseUintLoop(s, n) ==
    IF s = <<>> THEN [err |-> "nil", un |-> n]
    ELSE IF ~IsDigit(Head(s)) THEN [err |-> "syntax", un |-> <<0>>]
    ELSE IF ~MagLess(n, UintCutoff) THEN [err |-> "range", un |-> MaxUint64]
    ELSE LET n1 == StripZeros(n \o <<DigitOf(Head(s))>>)
         IN  IF MagLess(MaxUint64, n1) THEN [err |-> "range", un |-> MaxUint64]
             ELSE ParseUintLoop(Tail(s), n1)

ParseUint(s) ==
    IF s = <<>> THEN [err |-> "syntax", un |-> <<0>>] ELSE ParseUintLoop(s, <<0>>)

\* variant: the sign is consumed but the magnitude is returned as it is
ParseIntUnsigned(s) ==
    IF s = <<>> THEN [ok |-> FALSE, neg |-> FALSE, mag |-> <<0>>]
    ELSE LET rest == IF Head(s) \in {"+", "-"} THEN Tail(s) ELSE s
             u    == ParseUint(rest)
         IN  IF u.err = "syntax" \/ ~MagLess(u.un, IntCutoff)
             THEN [ok |-> FALSE, neg |-> FALSE, mag |-> <<0>>]
             ELSE [ok |-> TRUE, neg |-> FALSE, mag |-> u.un]

\* strconv.ParseInt(v, 10, 64) as called by Gather
ParseInt(s) ==
    IF s = <<>> THEN [ok |-> FALSE, neg |-> FALSE, mag |-> <<0>>]
    ELSE LET neg  == Head(s) = "-"
             rest == IF Head(s) \in {"+", "-"} THEN Tail(s) ELSE s
             u    == ParseUint(rest)
         IN  IF u.err = "syntax" THEN [ok |-> FALSE, neg |-> FALSE, mag |-> <<0>>]
             ELSE IF ~neg /\ ~MagLess(u.un, IntCutoff)
                  THEN [ok |-> FALSE, neg |-> FALSE, mag |-> <<0>>]
             ELSE IF neg /\ MagLess(IntCutoff, u.un)
                  THEN [ok |-> FALSE, neg |-> FALSE, mag |-> <<0>>]
             ELSE [ok |-> TRUE, neg |-> neg /\ u.un # <<0>>, mag |-> u.un]

----------------------------------------------------------------------------
(* Column values: what Scan stores into an interface{} *)

Int64V(neg, mag) == [t |-> "int64", neg |-> neg, mag |-> mag, s |-> <<>>]
StringV(s)       == [t |-> "string", neg |-> FALSE, mag |-> <<0>>, s |-> s]
Float64V         == [t |-> "float64", neg |-> FALSE, mag |-> <<0>>, s |-> <<>>]
BoolV            == [t |-> "bool", neg |-> FALSE, mag |-> <<0>>, s |-> <<>>]
NilV             == [t |-> "nil", neg |-> FALSE, mag |-> <<0>>, s |-> <<>>]


----------------------------------------------------------------------------
(* Errors.  nil is NoErr; every other error value is kept apart by the     *)
(* step that produced it and, for a *strconv.NumError, by its Num.        *)

NoErr           == [kind |-> "nil", pass |-> "", num |-> <<>>]
Error(k, p)     == [kind |-> k, pass |-> p, num |-> <<>>]
NumError(s)     == [kind |-> "NumError", pass |-> "stats", num |-> s]
ErrAddress      == [kind |-> "address", pass |-> "", num |-> <<>>]

\* what the caller of Gather observes
Running         == [kind |-> "running", pass |-> "", num |-> <<>>]
Panicked        == [kind |-> "panic", pass |-> "", num |-> <<>>]

----------------------------------------------------------------------------
(* Inputs: configured addresses, result-set shapes and scanned values *)

Addresses ==
    { [valid |-> TRUE,  sanitized |-> <<"h", "1">>],
      [valid |-> TRUE,  sanitized |-> <<"h", "2">>],
      [valid |-> FALSE, sanitized |-> <<>>] }

ColumnLists ==
    { <<>>,
      <<"database", "total_xact_count">>,
      <<"user", "pool_mode", "cl_active">>,
      <<"avg_req", "cl_active", "cl_waiting">>,
      <<"user", "database", "avg_req", "cl_active">>,
      <<"cl_waiting", "cl_waiting">> }

CounterValues ==
    { Int64V(FALSE, <<4, 2>>), Int64V(TRUE, <<7>>),
      StringV(<<"7">>), StringV(<<"-", "7">>), StringV(<<"-", "0">>), StringV(<<"+", "1", "2">>),
      StringV(<<"0", "0", "7">>), StringV(<<>>), StringV(<<"a", "b", "c">>),
      StringV(<<"1", " ">>), StringV(<<"-">>),
      StringV(<<"9", "2", "2", "3", "3", "7", "2", "0", "3", "6", "8", "5", "4", "7", "7", "5", "8", "0", "7">>),
      StringV(<<"9", "2", "2", "3", "3", "7", "2", "0", "3", "6", "8", "5", "4", "7", "7", "5", "8", "0", "8">>),
      StringV(<<"-", "9", "2", "2", "3", "3", "7", "2", "0", "3", "6", "8", "5", "4", "7", "7", "5", "8", "0", "8">>),
      StringV(<<"-", "9", "2", "2", "3", "3", "7", "2", "0", "3", "6", "8", "5", "4", "7", "7", "5", "8", "0", "9">>),
      StringV(<<"1", "8", "4", "4", "6", "7", "4", "4", "0", "7", "3", "7", "0", "9", "5", "5", "1", "6", "1", "6">>),
      Float64V, BoolV, NilV }

ValuesOf(column) ==
    CASE column = "database"  -> { StringV(<<"a", "p", "p">>), NilV, Int64V(FALSE, <<5>>) }
      [] column = "user"      -> { StringV(<<"b", "o", "b">>), StringV(<<>>), NilV, Float64V }
      [] column = "pool_mode" -> { StringV(<<"t", "r", "a", "n", "s", "a", "c", "t", "i", "o", "n">>), StringV(<<>>), BoolV }
      [] column = "avg_req"   -> { StringV(<<"5">>), StringV(<<"a", "b", "c">>), Float64V }
      [] column = "cl_active" -> { Int64V(FALSE, <<3>>), StringV(<<"x">>), Float64V }
      [] column = "cl_waiting" -> { Int64V(FALSE, <<1>>), StringV(<<"y">>), StringV(<<"+", "2">>), NilV }
      [] OTHER                -> CounterValues

\* the values one Scan can store for a column list, one per destination
RECURSIVE RowsOf(_)
RowsOf(cols) ==
    IF cols = <<>> THEN { <<>> }
    ELSE { <<v>> \o r : v \in ValuesOf(Head(cols)), r \in RowsOf(Tail(cols)) }

\* the orders in which a range over a map can visit its keys
RECURSIVE Orders(_)
Orders(keys) ==
    IF keys = {} THEN { <<>> }
    ELSE UNION { { <<k>> \o o : o \in Orders(keys \ {k}) } : k \in keys }


----------------------------------------------------------------------------
(* Collaborators *)

\* postgresql.Service.SanitizedAddress: the display-safe address, or an error
SanitizedAddress(a) ==
    IF a.valid THEN [err |-> NoErr, out |-> a.sanitized]
    ELSE [err |-> ErrAddress, out |-> <<>>]

\* variant: the Close of the first result set is not deferred
CloseRowsNever(cur) == cur

\* defer rows.Close(): runs on every exit of Gather once it is registered
CloseRows(cur) == IF cur = "open" THEN "closed" ELSE cur

\* defer poolRows.Close()
ClosePoolRows(cur) == IF cur = "open" THEN "closed" ELSE cur

\* database/sql: a Next that returns false has closed the Rows
NextFalse(cur) == "closed"

----------------------------------------------------------------------------
(* accRow and the two loop bodies of Gather *)

ignoredColumns ==
    { "user", "database", "pool_mode", "avg_req", "avg_recv", "avg_sent", "avg_query" }

Postgres == <<"p", "o", "s", "t", "g", "r", "e", "s">>

NoFields == [c \in {} |-> NilV]
NoTags   == [c \in {} |-> <<>>]

KeysOf(cols) == { cols[i] : i \in DOMAIN cols }

\* the destinations handed to Scan: one per map entry, taken from the front of columns
ColumnVars(cols) == [i \in 1..Cardinality(KeysOf(cols)) |-> cols[i]]

\* row.Scan(columnVars...): fails when the driver fails or the destination count is wrong
ScanFails(cols, scanErr) == scanErr \/ Len(ColumnVars(cols)) # Len(cols)

\* the column map after a successful Scan
ColumnMap(cols, vals) ==
    [c \in KeysOf(cols) |-> vals[CHOOSE i \in DOMAIN cols : cols[i] = c]]

\* the database name written to dbname; "panic" when the type assertion fails
DbName(columnMap) ==
    IF "database" \in DOMAIN columnMap
    THEN IF columnMap["database"].t = "string"
         THEN [panic |-> FALSE, name |-> columnMap["database"].s]
         ELSE [panic |-> TRUE, name |-> <<>>]
    ELSE [panic |-> FALSE, name |-> Postgres]

\* variant: the error of SanitizedAddress is not looked at
accRowAnyAddress(pass, cols, scanErr, vals, addr) ==
    IF ScanFails(cols, scanErr)
    THEN [status |-> "err", err |-> Error("scan", pass), tags |-> NoTags, columnMap |-> NoFields]
    ELSE LET columnMap == ColumnMap(cols, vals)
             db        == DbName(columnMap)
             sa        == SanitizedAddress(addr)
         IN  IF db.panic
             THEN [status |-> "panic", err |-> NoErr, tags |-> NoTags, columnMap |-> columnMap]
             ELSE [status |-> "ok", err |-> NoErr,
                   tags |-> ("server" :> sa.out) @@ ("db" :> db.name),
                   columnMap |-> columnMap]

accRow(pass, cols, scanErr, vals, addr) ==
    IF ScanFails(cols, scanErr)
    THEN [status |-> "err", err |-> Error("scan", pass), tags |-> NoTags, columnMap |-> NoFields]
    ELSE LET columnMap == ColumnMap(cols, vals)
             db        == DbName(columnMap)
             sa        == SanitizedAddress(addr)
         IN  IF db.panic
             THEN [status |-> "panic", err |-> NoErr, tags |-> NoTags, columnMap |-> columnMap]
             ELSE IF sa.err # NoErr
             THEN [status |-> "err", err |-> sa.err, tags |-> NoTags, columnMap |-> columnMap]
             ELSE [status |-> "ok", err |-> NoErr,
                   tags |-> ("server" :> sa.out) @@ ("db" :> db.name),
                   columnMap |-> columnMap]

\* variant: a string that does not parse is left out instead of ending the cycle
RECURSIVE StatsFieldsSkipBad(_, _, _)
StatsFieldsSkipBad(order, columnMap, fields) ==
    IF order = <<>> THEN [err |-> NoErr, fields |-> fields]
    ELSE LET col == Head(order)
             v   == columnMap[col]
         IN  IF col \in ignoredColumns
             THEN StatsFieldsSkipBad(Tail(order), columnMap, fields)
             ELSE IF v.t = "int64"
             THEN StatsFieldsSkipBad(Tail(order), columnMap, (col :> v) @@ fields)
             ELSE IF v.t = "string" /\ ParseInt(v.s).ok
             THEN StatsFieldsSkipBad(Tail(order), columnMap,
                     (col :> Int64V(ParseInt(v.s).neg, ParseInt(v.s).mag)) @@ fields)
             ELSE StatsFieldsSkipBad(Tail(order), columnMap, fields)

\* the range over columnMap of the statistics pass, visiting the keys in the given order
RECURSIVE StatsFields(_, _, _)
StatsFields(order, columnMap, fields) ==
    IF order = <<>> THEN [err |-> NoErr, fields |-> fields]
    ELSE LET col == Head(order)
             v   == columnMap[col]
         IN  IF col \in ignoredColumns
             THEN StatsFields(Tail(order), columnMap, fields)
             ELSE IF v.t = "int64"
             THEN StatsFields(Tail(order), columnMap, (col :> v) @@ fields)
             ELSE IF v.t = "string"
             THEN LET integer == ParseInt(v.s)
                  IN  IF ~integer.ok
                      THEN [err |-> NumError(v.s), fields |-> fields]
                      ELSE StatsFields(Tail(order), columnMap,
                                       (col :> Int64V(integer.neg, integer.mag)) @@ fields)
             ELSE StatsFields(Tail(order), columnMap, fields)

\* variant: an empty string becomes a tag too
PoolTagAnyString(key, columnMap, tags) ==
    IF key \in DOMAIN columnMap /\ columnMap[key].t = "string"
    THEN (key :> columnMap[key].s) @@ tags
    ELSE tags

\* the user and pool_mode tags of the pool-status pass
PoolTag(key, columnMap, tags) ==
    IF key \in DOMAIN columnMap
       /\ columnMap[key].t = "string"
       /\ columnMap[key].s # <<>>
    THEN (key :> columnMap[key].s) @@ tags
    ELSE tags

PoolTags(columnMap, tags) ==
    PoolTag("pool_mode", columnMap, PoolTag("user", columnMap, tags))

\* the range over columnMap of the pool-status pass
PoolFields(columnMap) ==
    [c \in DOMAIN columnMap \ ignoredColumns |-> columnMap[c]]

\* one iteration of the SHOW STATS loop, up to the AddFields call
StatsRowBody(cols, scanErr, vals, order, addr) ==
    LET a == accRow("stats", cols, scanErr, vals, addr)
    IN  IF a.status # "ok"
        THEN [status |-> a.status, err |-> a.err, name |-> "", fields |-> NoFields,
              tags |-> NoTags, columnMap |-> a.columnMap]
        ELSE LET f == StatsFields(order, a.columnMap, NoFields)
             IN  IF f.err # NoErr
                 THEN [status |-> "err", err |-> f.err, name |-> "", fields |-> NoFields,
                       tags |-> NoTags, columnMap |-> a.columnMap]
                 ELSE [status |-> "ok", err |-> NoErr, name |-> "odyssey",
                       fields |-> f.fields, tags |-> a.tags, columnMap |-> a.columnMap]

\* one iteration of the SHOW POOLS loop, up to the AddFields call
PoolsRowBody(cols, scanErr, vals, addr) ==
    LET a == accRow("pools", cols, scanErr, vals, addr)
    IN  IF a.status # "ok"
        THEN [status |-> a.status, err |-> a.err, name |-> "", fields |-> NoFields,
              tags |-> NoTags, columnMap |-> a.columnMap]
        ELSE [status |-> "ok", err |-> NoErr, name |-> "odyssey_pools",
              fields |-> PoolFields(a.columnMap),
              tags |-> PoolTags(a.columnMap, a.tags), columnMap |-> a.columnMap]


----------------------------------------------------------------------------
(* History: which scanned rows carry a string that is no base-10 int64 *)

\* s is an optional sign followed by decimal digits denoting a value in -2^63 .. 2^63-1
IsBase10Int64(s) ==
    LET signed == s # <<>> /\ Head(s) \in {"+", "-"}
        body   == IF signed THEN Tail(s) ELSE s
    IN  /\ body # <<>>
        /\ \A i \in DOMAIN body : IsDigit(body[i])
        /\ LET m == StripZeros([i \in DOMAIN body |-> DigitOf(body[i])])
           IN  IF Head(s) = "-" THEN ~MagLess(IntCutoff, m) ELSE MagLess(m, IntCutoff)

\* the dynamic type Scan left in the database column of a row
DbTypeOf(cols, scanErr, vals) ==
    IF ScanFails(cols, scanErr) THEN "unscanned"
    ELSE IF "database" \notin KeysOf(cols) THEN "absent"
    ELSE ColumnMap(cols, vals)["database"].t

HasBadString(columnMap) ==
    \E c \in DOMAIN columnMap \ ignoredColumns :
        columnMap[c].t = "string" /\ ~IsBase10Int64(columnMap[c].s)

----------------------------------------------------------------------------
(* Gather *)

NoCall == [name |-> "", fields |-> NoFields, tags |-> NoTags, columnMap |-> NoFields]

Init ==
    /\ pc = "query1"
    /\ address \in Addresses
    /\ ret = Running
    /\ rowsCur = "none"
    /\ poolCur = "none"
    /\ columns = <<>>
    /\ calls = <<>>
    /\ lastCall = NoCall
    /\ queries = <<>>
    /\ statsRows = 0
    /\ poolsRows = 0
    /\ errs = <<>>
    /\ badRow = 0
    /\ dbType = "unscanned"

\* a return statement of Gather, or a panic leaving it: the deferred Closes run
Return(r) ==
    /\ pc' = "done"
    /\ ret' = r
    /\ rowsCur' = CloseRows(rowsCur)
    /\ poolCur' = ClosePoolRows(poolCur)

\* variant: the error is noted and the cycle goes on
FailContinue(e) ==
    /\ errs' = Append(errs, [err |-> e, at |-> pc])
    /\ UNCHANGED <<pc, ret, rowsCur, poolCur>>

\* an error value comes back from a step: Gather returns it at once
Fail(e) ==
    /\ errs' = Append(errs, [err |-> e, at |-> pc])
    /\ Return(e)

\* variant: a metric without fields is not handed over
AddFieldsNonEmpty(log, name, row, fields) ==
    IF DOMAIN fields = {} THEN log ELSE Append(log, [name |-> name, row |-> row])

\* acc.AddFields(name, fields, tags), as the accumulator records the call
AddFields(log, name, row, fields) == Append(log, [name |-> name, row |-> row])

\* rows, err := p.DB.Query(`SHOW STATS`)
StatsQuery ==
    /\ pc = "query1"
    /\ queries' = Append(queries, [query |-> "SHOW STATS", statsCursor |-> rowsCur])
    /\ \E e \in {NoErr, Error("query", "stats")} :
          IF e # NoErr
          THEN Fail(e)
          ELSE /\ rowsCur' = "open"
               /\ pc' = "columns1"
               /\ UNCHANGED <<ret, poolCur, errs>>
    /\ UNCHANGED <<address, columns, calls, lastCall, statsRows, poolsRows, badRow, dbType>>

\* columns, err = rows.Columns()
StatsColumns ==
    /\ pc = "columns1"
    /\ \/ /\ Fail(Error("columns", "stats"))
          /\ UNCHANGED columns
       \/ /\ \E cols \in ColumnLists : columns' = cols
          /\ pc' = "loop1"
          /\ UNCHANGED <<ret, rowsCur, poolCur, errs>>
    /\ UNCHANGED <<address, calls, lastCall, queries, statsRows, poolsRows, badRow, dbType>>

\* rows.Next() returned true: one iteration of the first loop
StatsRow ==
    /\ pc = "loop1"
    /\ statsRows < MaxRows
    /\ statsRows' = statsRows + 1
    /\ \E scanErr \in BOOLEAN, vals \in RowsOf(columns), order \in Orders(KeysOf(columns)) :
          LET b == StatsRowBody(columns, scanErr, vals, order, address)
          IN  /\ dbType' = DbTypeOf(columns, scanErr, vals)
              /\ badRow' = IF /\ badRow = 0
                              /\ ~ScanFails(columns, scanErr)
                              /\ HasBadString(ColumnMap(columns, vals))
                           THEN statsRows + 1 ELSE badRow
              /\ CASE b.status = "ok" ->
                        /\ calls' = AddFields(calls, b.name, statsRows + 1, b.fields)
                        /\ lastCall' = [name |-> b.name, fields |-> b.fields,
                                        tags |-> b.tags, columnMap |-> b.columnMap]
                        /\ UNCHANGED <<pc, ret, rowsCur, poolCur, errs>>
                   [] b.status = "err" ->
                        /\ Fail(b.err)
                        /\ UNCHANGED <<calls, lastCall>>
                   [] b.status = "panic" ->
                        /\ Return(Panicked)
                        /\ UNCHANGED <<calls, lastCall, errs>>
    /\ UNCHANGED <<address, columns, queries, poolsRows>>

\* rows.Next() returned false, then err = rows.Err()
StatsEnd ==
    /\ pc = "loop1"
    /\ \E e \in {NoErr, Error("rows", "stats")} :
          IF e # NoErr
          THEN /\ errs' = Append(errs, [err |-> e, at |-> pc])
               /\ pc' = "done"
               /\ ret' = e
               /\ rowsCur' = CloseRows(NextFalse(rowsCur))
               /\ poolCur' = ClosePoolRows(poolCur)
          ELSE /\ rowsCur' = NextFalse(rowsCur)
               /\ pc' = "query2"
               /\ UNCHANGED <<ret, poolCur, errs>>
    /\ UNCHANGED <<address, columns, calls, lastCall, queries, statsRows, poolsRows, badRow, dbType>>

\* poolRows, err := p.DB.Query(`SHOW POOLS`)
PoolsQuery ==
    /\ pc = "query2"
    /\ queries' = Append(queries, [query |-> "SHOW POOLS", statsCursor |-> rowsCur])
    /\ \E e \in {NoErr, Error("query", "pools")} :
          IF e # NoErr
          THEN Fail(e)
          ELSE /\ poolCur' = "open"
               /\ pc' = "columns2"
               /\ UNCHANGED <<ret, rowsCur, errs>>
    /\ UNCHANGED <<address, columns, calls, lastCall, statsRows, poolsRows, badRow, dbType>>

\* columns, err = poolRows.Columns()
PoolsColumns ==
    /\ pc = "columns2"
    /\ \/ /\ Fail(Error("columns", "pools"))
          /\ UNCHANGED columns
       \/ /\ \E cols \in ColumnLists : columns' = cols
          /\ pc' = "loop2"
          /\ UNCHANGED <<ret, rowsCur, poolCur, errs>>
    /\ UNCHANGED <<address, calls, lastCall, queries, statsRows, poolsRows, badRow, dbType>>

\* poolRows.Next() returned true: one iteration of the second loop
PoolsRow ==
    /\ pc = "loop2"
    /\ poolsRows < MaxRows
    /\ poolsRows' = poolsRows + 1
    /\ \E scanErr \in BOOLEAN, vals \in RowsOf(columns) :
          LET b == PoolsRowBody(columns, scanErr, vals, address)
          IN  /\ dbType' = DbTypeOf(columns, scanErr, vals)
              /\ CASE b.status = "ok" ->
                        /\ calls' = AddFields(calls, b.name, poolsRows + 1, b.fields)
                        /\ lastCall' = [name |-> b.name, fields |-> b.fields,
                                        tags |-> b.tags, columnMap |-> b.columnMap]
                        /\ UNCHANGED <<pc, ret, rowsCur, poolCur, errs>>
                   [] b.status = "err" ->
                        /\ Fail(b.err)
                        /\ UNCHANGED <<calls, lastCall>>
                   [] b.status = "panic" ->
                        /\ Return(Panicked)
                        /\ UNCHANGED <<calls, lastCall, errs>>
    /\ UNCHANGED <<address, columns, queries, statsRows, badRow>>

\* variant: the second loop is followed by return nil
PoolsEndReturnsNil ==
    /\ pc = "loop2"
    /\ \E e \in {NoErr, Error("rows", "pools")} :
          /\ errs' = IF e # NoErr THEN Append(errs, [err |-> e, at |-> pc]) ELSE errs
          /\ pc' = "done"
          /\ ret' = NoErr
          /\ rowsCur' = CloseRows(rowsCur)
          /\ poolCur' = ClosePoolRows(NextFalse(poolCur))
    /\ UNCHANGED <<address, columns, calls, lastCall, queries, statsRows, poolsRows, badRow, dbType>>

\* poolRows.Next() returned false, then return poolRows.Err()
PoolsEnd ==
    /\ pc = "loop2"
    /\ \E e \in {NoErr, Error("rows", "pools")} :
          /\ errs' = IF e # NoErr THEN Append(errs, [err |-> e, at |-> pc]) ELSE errs
          /\ pc' = "done"
          /\ ret' = e
          /\ rowsCur' = CloseRows(rowsCur)
          /\ poolCur' = ClosePoolRows(NextFalse(poolCur))
    /\ UNCHANGED <<address, columns, calls, lastCall, queries, statsRows, poolsRows, badRow, dbType>>

Next ==
    \/ StatsQuery
    \/ StatsColumns
    \/ StatsRow
    \/ StatsEnd
    \/ PoolsQuery
    \/ PoolsColumns
    \/ PoolsRow
    \/ PoolsEnd

Spec == Init /\ [][Next]_vars


----------------------------------------------------------------------------
(* Vocabulary of the properties *)

IgnoreSet ==
    { "user", "database", "pool_mode", "avg_req", "avg_recv", "avg_sent", "avg_query" }

Returned   == pc = "done" /\ ret # Panicked
IsError(r) == r.kind \notin {"nil", "running", "panic"}
Emitted    == lastCall.name # ""

HasQuery(q) == \E i \in DOMAIN queries : queries[i].query = q

\* the decimal rendering of an int64 value
FormatInt(v) ==
    (IF v.neg THEN <<"-">> ELSE <<>>) \o [i \in DOMAIN v.mag |-> DigitChars[v.mag[i] + 1]]

\* a decimal integer string without its "+" sign, its leading zeros and the sign of zero
Canonical(s) ==
    LET signed == Head(s) \in {"+", "-"}
        body   == IF signed THEN Tail(s) ELSE s
        m      == StripZeros([i \in DOMAIN body |-> DigitOf(body[i])])
    IN  FormatInt([neg |-> Head(s) = "-" /\ m # <<0>>, mag |-> m])

\* the metrics a cycle emits when every row yields one, in row order
OnePerRow ==
    [i \in 1..(statsRows + poolsRows) |->
        IF i <= statsRows THEN [name |-> "odyssey", row |-> i]
        ELSE [name |-> "odyssey_pools", row |-> i - statsRows]]

----------------------------------------------------------------------------
(* Properties *)

\* C1 as stated: once a scanned statistics row holds a non-ignored string that is no
\* base-10 int64, Gather returns an error and not one AddFields call was made in the
\* cycle, not even for the rows before it.
C1_NoMetricAtAll ==
    (Returned /\ badRow > 0) => (IsError(ret) /\ calls = <<>>)

\* C1 amended: the cycle ends at the first such row without succeeding (an error is
\* returned, or accRow aborts on the row's database column), that row and everything
\* after it emit nothing, and each row before it has emitted its one "odyssey" metric.
C1_StopsAtBadRow ==
    badRow > 0 =>
        /\ pc = "done"
        /\ statsRows = badRow
        /\ \/ ret = Panicked
           \/ ret = ErrAddress
           \/ ret.kind = "NumError" /\ ~IsBase10Int64(ret.num)
        /\ calls = [i \in 1..(badRow - 1) |-> [name |-> "odyssey", row |-> i]]
        /\ ~HasQuery("SHOW POOLS")

C1_Witness ==
    /\ badRow = 2
    /\ ret.kind = "NumError"
    /\ Len(calls) = 1

\* C2: the db tag of every metric is the database column's string, or "postgres" when
\* the column is missing, null or no string; classifying a row never crashes on it.
C2_DbTagOrDefault ==
    /\ ret # Panicked
    /\ Emitted =>
          lastCall.tags["db"] =
              IF "database" \in DOMAIN lastCall.columnMap
                 /\ lastCall.columnMap["database"].t = "string"
              THEN lastCall.columnMap["database"].s
              ELSE Postgres

\* C3: the fields of an "odyssey" metric are non-ignored columns of its row; each is an
\* int64, the scanned int64 itself or the decimal value of the scanned string; a column
\* of another type is left out, and a parse error only ever names a non-integer string.
C3_StatsFields ==
    /\ lastCall.name = "odyssey" =>
          LET cm == lastCall.columnMap
              f  == lastCall.fields
          IN  /\ DOMAIN f \subseteq (DOMAIN cm \ IgnoreSet)
              /\ \A k \in DOMAIN f :
                    /\ f[k].t = "int64"
                    /\ cm[k].t \in {"int64", "string"}
                    /\ cm[k].t = "int64" => f[k] = cm[k]
                    /\ cm[k].t = "string" =>
                          /\ IsBase10Int64(cm[k].s)
                          /\ FormatInt(f[k]) = Canonical(cm[k].s)
              /\ \A k \in DOMAIN cm \ IgnoreSet :
                    cm[k].t \notin {"int64", "string"} => k \notin DOMAIN f
    /\ \A i \in DOMAIN errs :
          errs[i].err.kind = "NumError" => ~IsBase10Int64(errs[i].err.num)

C3_Witness ==
    /\ lastCall.name = "odyssey"
    /\ DOMAIN lastCall.columnMap = {"avg_req", "cl_active", "cl_waiting"}
    /\ lastCall.columnMap["avg_req"] = StringV(<<"a", "b", "c">>)
    /\ lastCall.columnMap["cl_active"] = Float64V
    /\ lastCall.columnMap["cl_waiting"] = StringV(<<"+", "2">>)
    /\ DOMAIN lastCall.fields = {"cl_waiting"}
    /\ lastCall.fields["cl_waiting"] = Int64V(FALSE, <<2>>)

\* C4: the fields of an "odyssey_pools" metric are exactly the non-ignored columns of
\* its row with their scanned values, and no column value makes the pool pass fail.
C4_PoolFieldsUnchanged ==
    /\ lastCall.name = "odyssey_pools" =>
          /\ DOMAIN lastCall.fields = DOMAIN lastCall.columnMap \ IgnoreSet
          /\ \A k \in DOMAIN lastCall.fields : lastCall.fields[k] = lastCall.columnMap[k]
    /\ poolsRows > 0 => (ret # Panicked /\ ret.kind # "NumError")

\* C5: an "odyssey" metric has the tag keys server and db only; an "odyssey_pools"
\* metric has user (pool_mode) exactly when that column holds a non-empty string, which
\* is then the tag; user and pool_mode are never fields.
C5_TagKeys ==
    Emitted =>
        LET cm == lastCall.columnMap
            tg == lastCall.tags
        IN  /\ lastCall.name = "odyssey" => DOMAIN tg = {"server", "db"}
            /\ lastCall.name = "odyssey_pools" =>
                  /\ {"server", "db"} \subseteq DOMAIN tg
                  /\ DOMAIN tg \subseteq {"server", "db", "user", "pool_mode"}
                  /\ \A key \in {"user", "pool_mode"} :
                        /\ key \in DOMAIN tg <=>
                              (key \in DOMAIN cm /\ cm[key].t = "string" /\ cm[key].s # <<>>)
                        /\ key \in DOMAIN tg => tg[key] = cm[key].s
            /\ DOMAIN lastCall.fields \cap {"user", "pool_mode"} = {}

C5_Witness ==
    /\ lastCall.name = "odyssey_pools"
    /\ DOMAIN lastCall.columnMap = {"user", "pool_mode", "cl_active"}
    /\ lastCall.columnMap["pool_mode"] = StringV(<<>>)
    /\ DOMAIN lastCall.tags = {"server", "db", "user"}
    /\ lastCall.tags["user"] = <<"b", "o", "b">>

\* C6: every metric has the server tag, the sanitized form of the configured address;
\* when the sanitizer fails for a row, that row emits nothing and Gather returns its error.
C6_ServerTag ==
    /\ Emitted =>
          /\ "server" \in DOMAIN lastCall.tags
          /\ address.valid
          /\ lastCall.tags["server"] = address.sanitized
    /\ (\E i \in DOMAIN errs : errs[i].err = ErrAddress) =>
          /\ ret = ErrAddress
          /\ Len(calls) = statsRows + poolsRows - 1

C6_Witness ==
    /\ ret = ErrAddress
    /\ poolsRows = 1
    /\ ~Emitted

\* C7: an error of the end-of-iteration check is what Gather returns, for SHOW STATS
\* before SHOW POOLS is run; Gather returns nil only when neither check failed.
C7_RowsErr ==
    /\ \A i \in DOMAIN errs :
          /\ errs[i].err = Error("rows", "stats") =>
                (pc = "done" /\ ret = Error("rows", "stats") /\ ~HasQuery("SHOW POOLS"))
          /\ errs[i].err = Error("rows", "pools") =>
                (pc = "done" /\ ret = Error("rows", "pools"))
    /\ ret = NoErr =>
          /\ pc = "done"
          /\ \A i \in DOMAIN errs : errs[i].err.kind # "rows"

C7_Witness ==
    /\ ret = Error("rows", "pools")
    /\ calls = OnePerRow
    /\ statsRows = 1
    /\ poolsRows = 2

\* C8: the SHOW STATS cursor is released before SHOW POOLS is run, and when Gather is
\* left, by return or otherwise, no cursor is still held.
C8_CursorsReleased ==
    /\ \A i \in DOMAIN queries :
          queries[i].query = "SHOW POOLS" => queries[i].statsCursor = "closed"
    /\ pc \in {"query2", "columns2", "loop2"} => rowsCur = "closed"
    /\ pc = "done" => (rowsCur # "open" /\ poolCur # "open")

C8_Witness ==
    /\ pc = "done"
    /\ ret = Error("columns", "pools")
    /\ rowsCur = "closed"
    /\ poolCur = "closed"

\* C9: the first error any step produces ends the cycle and is the value returned;
\* nothing runs after it, and after an error of the statistics phase SHOW POOLS is not run.
C9_FailFast ==
    errs # <<>> =>
        /\ pc = "done"
        /\ Len(errs) = 1
        /\ ret = errs[1].err
        /\ errs[1].at \in {"query1", "columns1", "loop1"} => ~HasQuery("SHOW POOLS")

C9_Witness ==
    /\ pc = "done"
    /\ ret = Error("scan", "pools")
    /\ errs = <<[err |-> Error("scan", "pools"), at |-> "loop2"]>>
    /\ Len(calls) = 3

\* C10: when Gather returns nil, the accumulator got one metric per row, the "odyssey"
\* ones in row order and then the "odyssey_pools" ones, empty field sets included.
C10_OnePerRow ==
    (pc = "done" /\ ret = NoErr) => calls = OnePerRow

C10_Witness ==
    /\ pc = "done"
    /\ ret = NoErr
    /\ statsRows = 2
    /\ poolsRows = 1
    /\ Len(calls) = 3
    /\ lastCall.name = "odyssey_pools"
    /\ DOMAIN lastCall.fields = {}

====
